---- MODULE Spec2Model ----
(***************************************************************************)
(* A model of the API gateway of src/src/middleware/auth.middleware.js:    *)
(* the exported authentication middleware (lines 1-135) and the gateway    *)
(* application that follows it in the same file (lines 137-453).           *)
(*                                                                         *)
(* Strings are sequences of tokens (a token stands for a fixed run of      *)
(* characters, e.g. "/", "api", "auth", "z"), so that startsWith, split,   *)
(* includes and replace act on them as they act on JavaScript strings.     *)
(* One request is followed from its arrival to its end.  It arrives either *)
(* at the gateway application (the app.use chain of lines 184-428) or at   *)
(* an application that mounts the exported gatewayAuthMiddleware.          *)
(***************************************************************************)
EXTENDS Integers, Sequences, FiniteSets, TLC

VARIABLES
  pc,         \* where the request is
  req,        \* the Express request: method, path, query, url, headers, user fields
  res,        \* the Express response: headersSent and the responses written
  jwt,        \* what the string "<jwt>" of an Authorization header decodes to
  jwtSecret,  \* process.env.JWT_SECRET
  classified, \* the branch gatewayAuthMiddleware took: "none", "public", "protected"
  verified,   \* jwt.verify returned for this request
  nextCalls,  \* how often gatewayAuthMiddleware called next()
  err,        \* the error handed to Express's error handling (next(err))
  fwd,        \* the request sent to a backend, or NoFwd
  backend,    \* the condition of the backend the request was sent to
  timer,      \* the req.setTimeout timer: "unset", "armed", "fired"
  clock,      \* milliseconds since the request arrived
  inbound,    \* the headers of the request as the caller sent them
  down,       \* what extractUserFromGateway set on the request, and its next calls
  reqs        \* the requests in flight when several are handled at a time

vars == <<pc, req, res, jwt, jwtSecret, classified, verified, nextCalls, err,
          fwd, backend, timer, clock, inbound, down, reqs>>

---------------------------------------------------------------------------
(* Bounds of the model *)

\* how many requests are handled at a time
NumReqs == 2

\* how many "/login" segments are appended to a base path
MaxSub == 1
\* the clock advances TicksPerDeadline times until the request's deadline
TicksPerDeadline == 3
\* and MaxOver times after it
MaxOver == 1

---------------------------------------------------------------------------
(* JavaScript values and string operations *)

\* the value undefined, as a header or claim value
UNDEF == "<undefined>"
\* the value undefined where a string (a token sequence) is expected
UndefinedStr == <<"<undefined>">>

\* !v for a token-sequence value: undefined and the empty string are falsy
FalsyStr(s) == s = UndefinedStr \/ s = <<>>
\* !v for an atomic value
Falsy(v) == v = UNDEF \/ v = ""

\* String.prototype.startsWith
StartsWith(s, prefix) ==
  /\ Len(prefix) <= Len(s)
  /\ SubSeq(s, 1, Len(prefix)) = prefix

\* String.prototype.includes, for a one-character search string
Includes(s, ch) == \E i \in 1..Len(s) : s[i] = ch

\* the position of the first occurrence of pat in s, 0 if there is none
IndexOf(s, pat) ==
  LET hits == {i \in 1..(Len(s) - Len(pat) + 1) : SubSeq(s, i, i + Len(pat) - 1) = pat}
  IN IF hits = {} THEN 0 ELSE CHOOSE i \in hits : \A j \in hits : i <= j

\* String.prototype.replace with a string pattern: the first occurrence only
ReplaceFirst(s, pat, by) ==
  LET i == IndexOf(s, pat)
  IN IF i = 0 THEN s
     ELSE SubSeq(s, 1, i - 1) \o by \o SubSeq(s, i + Len(pat), Len(s))

\* String.prototype.split with a one-character separator
RECURSIVE Split(_, _)
Split(s, sep) ==
  LET i == IndexOf(s, <<sep>>)
  IN IF i = 0 THEN <<s>>
     ELSE <<SubSeq(s, 1, i - 1)>> \o Split(SubSeq(s, i + 1, Len(s)), sep)

\* String.prototype.toLowerCase, on the tokens the model uses
LowerTok(t) == IF t = "API" THEN "api" ELSE t
Lower(s) == [i \in 1..Len(s) |-> LowerTok(s[i])]

---------------------------------------------------------------------------
(* Route classifier, lines 11-33 *)

\* the public set without its last entry, /api
PUBLIC_ROUTES_WithoutApi == <<
  <<"/", "api", "/", "auth", "/", "login">>,
  <<"/", "api", "/", "auth", "/", "register">>,
  <<"/", "api", "/", "auth", "/", "forgot-password">>,
  <<"/", "api", "/", "auth", "/", "reset-password">>,
  <<"/", "health">> >>

PUBLIC_ROUTES == <<
  <<"/", "api", "/", "auth", "/", "login">>,
  <<"/", "api", "/", "auth", "/", "register">>,
  <<"/", "api", "/", "auth", "/", "forgot-password">>,
  <<"/", "api", "/", "auth", "/", "reset-password">>,
  <<"/", "health">>,
  <<"/", "api">> >>

\* the callback of PUBLIC_ROUTES.some, line 26-32, with the equality only
RouteMatchesExactOnly(route, path) ==
  IF Includes(route, "*")
    THEN StartsWith(path, ReplaceFirst(route, <<"/", "*">>, <<>>))
    ELSE path = route

\* the callback of PUBLIC_ROUTES.some, lines 26-32
RouteMatches(route, path) ==
  IF Includes(route, "*")
    THEN StartsWith(path, ReplaceFirst(route, <<"/", "*">>, <<>>))
    ELSE path = route \/ StartsWith(path, route)

\* Array.prototype.some over the routes, from the first to the last
RECURSIVE SomeRoute(_, _)
SomeRoute(routes, path) ==
  IF routes = <<>> THEN FALSE
  ELSE RouteMatches(Head(routes), path) \/ SomeRoute(Tail(routes), path)

isPublicRoute(path) == SomeRoute(PUBLIC_ROUTES, path)

---------------------------------------------------------------------------
(* Tokens, line 80: jwt.verify(token, jwtSecret) of the jsonwebtoken library *)

UserKeys == <<"id", "_id", "email", "userType">>

UserVals(k) ==
  CASE k = "id" -> {"", "u1"}
    [] k = "_id" -> {"m1"}
    [] k = "email" -> {"a@b.com"}
    [] k = "userType" -> {"buyer"}

KeySet == {UserKeys[i] : i \in 1..Len(UserKeys)}

\* the user objects a token's claims may hold: any subset of the keys
Users ==
  {u \in UNION {[D -> UNION {UserVals(k) : k \in KeySet}] : D \in SUBSET KeySet} :
     \A k \in DOMAIN u : u[k] \in UserVals(k)}

U1 == [id |-> "u1", email |-> "a@b.com", userType |-> "buyer"]

\* a user object that JSON.stringify cannot serialize (it throws, for example
\* a RangeError on a value nested too deeply)
DeepUser ==
  [id |-> "u1", email |-> "a@b.com", userType |-> "buyer", nested |-> "<too deep>"]

\* a token: the secret it was signed with, its time claims, its user claim
Jwts ==
  {[key |-> "s1", time |-> "valid", hasUser |-> TRUE, user |-> u] : u \in Users}
  \cup {[key |-> "s1", time |-> "valid", hasUser |-> TRUE, user |-> DeepUser]}
  \cup {[key |-> "s1", time |-> "valid", hasUser |-> FALSE, user |-> <<>>]}
  \cup {[key |-> k, time |-> t, hasUser |-> TRUE, user |-> U1] :
          k \in {"s1", "s2"}, t \in {"valid", "expired", "notBefore"}}

\* decoded.user?.f : undefined when there is no user or it has no field f
Field(decoded, f) ==
  IF decoded.hasUser /\ f \in DOMAIN decoded.user THEN decoded.user[f] ELSE UNDEF

\* jwt.verify of a token string that decodes to j (when it is "<jwt>"): the
\* signature first, then nbf, then exp; it throws by name
JwtVerify(j, token, secret) ==
  IF token = <<>> \/ token # <<"<jwt>">>
    THEN [ok |-> FALSE, name |-> "JsonWebTokenError"]
  ELSE IF <<j.key>> # secret
    THEN [ok |-> FALSE, name |-> "JsonWebTokenError"]
  ELSE IF j.time = "notBefore"
    THEN [ok |-> FALSE, name |-> "NotBeforeError"]
  ELSE IF j.time = "expired"
    THEN [ok |-> FALSE, name |-> "TokenExpiredError"]
  ELSE [ok |-> TRUE, name |-> "", decoded |-> j]

\* JSON.stringify of a user object: undefined for undefined, else its text
RECURSIVE JsonPairs(_, _)
JsonPairs(u, keys) ==
  IF keys = <<>> THEN <<>>
  ELSE (IF Head(keys) \in DOMAIN u
          THEN <<Head(keys), ":", u[Head(keys)], ",">> ELSE <<>>)
       \o JsonPairs(u, Tail(keys))

JsonStringify(decoded) ==
  IF ~decoded.hasUser THEN UndefinedStr
  ELSE <<"{">> \o JsonPairs(decoded.user, UserKeys) \o <<"}">>

\* the text is an object literal: "{", groups of key ":" value ",", then "}"
JsonWellFormed(text) ==
  /\ Len(text) >= 2
  /\ text[1] = "{"
  /\ text[Len(text)] = "}"
  /\ (Len(text) - 2) % 4 = 0
  /\ \A g \in 0..((Len(text) - 2) \div 4 - 1) :
       /\ text[4 * g + 2] \notin {"{", "}", ":", ","}
       /\ text[4 * g + 3] = ":"
       /\ text[4 * g + 4] \notin {"{", "}", ":", ","}
       /\ text[4 * g + 5] = ","

\* the value of the last pair of the text whose key is k
JsonValueOf(text, k) ==
  LET Groups == {g \in 0..((Len(text) - 2) \div 4 - 1) : text[4 * g + 2] = k}
      last == CHOOSE g \in Groups : \A h \in Groups : h <= g
  IN text[4 * last + 4]

\* a JSON.parse that keeps the first pair of the object only
JsonParseFirstPair(text) ==
  IF ~JsonWellFormed(text) THEN [ok |-> FALSE]
  ELSE IF Len(text) = 2 THEN [ok |-> TRUE, value |-> << >>]
  ELSE [ok |-> TRUE, value |-> [k \in {text[2]} |-> text[4]]]

\* JSON.parse: it throws (ok FALSE) on a text that is not JSON, and returns
\* the object with the keys and values of the text otherwise
JsonParse(text) ==
  IF ~JsonWellFormed(text) THEN [ok |-> FALSE]
  ELSE LET n == (Len(text) - 2) \div 4
           Keys == {text[4 * g + 2] : g \in 0..(n - 1)}
       IN [ok |-> TRUE, value |-> [k \in Keys |-> JsonValueOf(text, k)]]

\* JSON.stringify throws on this user object
JsonStringifyThrows(decoded) ==
  decoded.hasUser /\ "nested" \in DOMAIN decoded.user

---------------------------------------------------------------------------
(* The inbound request *)

Methods == {"GET", "POST"}

\* "/login", the sub-path appended to a base path
SubPath == <<"/", "login">>

RECURSIVE Repeat(_, _)
Repeat(s, n) == IF n = 0 THEN <<>> ELSE s \o Repeat(s, n - 1)

BasePaths == {
  <<"/", "api", "/", "auth", "z">>,       \* /api/authz
  <<"/", "API", "/", "auth", "z">>,       \* /API/authz
  <<"/", "api", "/", "iam">>,             \* /api/iam
  <<"/", "api", "/", "inv">>,             \* /api/inv
  <<"/", "api", "/", "inv", "entory">>,   \* /api/inventory
  <<"/", "api", "/", "auth">>,            \* /api/auth
  <<"/", "api">>,                         \* /api
  <<"/", "gateway", "/", "health">>,      \* /gateway/health
  <<"/", "health">>,                      \* /health
  <<"/", "health", "z">>,                 \* /healthz
  <<"/", "orders">> }                     \* /orders

Paths == {b \o Repeat(SubPath, k) : b \in BasePaths, k \in 0..MaxSub}

Queries == {<<>>, <<"?", "q=1">>}

\* the Authorization header values: absent, empty, and the shapes of line 58-59
AuthHeadersNoJwt == {
  UndefinedStr,
  <<>>,
  <<"Basic", " ", "xyz">>,
  <<"Bearer">>,
  <<"Bearer", " ", "a", " ", "b">>,
  <<"Bearer", " ">>,
  <<"Bearer", " ", "garbage">> }

AuthHeadersJwt == {
  <<"Bearer", " ", "<jwt>">>,
  <<"bearer", " ", "<jwt>">> }

\* the token of the example of the specification
DefaultJwt == [key |-> "s1", time |-> "valid", hasUser |-> TRUE, user |-> U1]

\* what "<jwt>" decodes to in a request with method m, query q and
\* Authorization header a: every token when the header carries it, on GET
\* requests without query string (the middleware reads neither the method
\* nor the query string, and no other handler reads the token)
TokensWith(m, q, a) ==
  IF a = <<"Bearer", " ", "<jwt>">> /\ m = "GET" /\ q = <<>>
    THEN Jwts
    ELSE {DefaultJwt}

\* identity headers as the caller sends them: none, or forged
NoIdentity ==
  [x_user_id |-> UNDEF, x_user_email |-> UNDEF, x_user_type |-> UNDEF,
   x_user_data |-> UndefinedStr]

ForgedIdentity ==
  [x_user_id |-> "admin", x_user_email |-> "root@evil", x_user_type |-> "admin",
   x_user_data |-> <<"{", "id", ":", "admin", ",", "}">>]

\* an x-user-data that is not JSON
GarbledIdentity ==
  [x_user_id |-> "admin", x_user_email |-> "root@evil", x_user_type |-> "admin",
   x_user_data |-> <<"{", "id">>]

CallerIdentities == {NoIdentity, ForgedIdentity}

\* the identities sent along with the Authorization header a: the one with
\* the broken x-user-data comes from callers that send no Authorization
IdentitiesWith(a) ==
  IF a = UndefinedStr THEN CallerIdentities \cup {GarbledIdentity}
  ELSE CallerIdentities

IdentityOf(headers) ==
  [x_user_id |-> headers.x_user_id, x_user_email |-> headers.x_user_email,
   x_user_type |-> headers.x_user_type, x_user_data |-> headers.x_user_data]

\* process.env.JWT_SECRET: unset, empty, or set
Secrets == {UndefinedStr, <<>>, <<"s1">>}

NoFwd == [to |-> "none"]
NoErr == [message |-> <<>>, status |-> 0]
\* req.user, req.userId, req.userEmail, req.userType not set
NoDown == [set |-> FALSE, nextCalls |-> 0]

Init ==
  /\ pc = "new"
  /\ \E m \in Methods, p \in Paths, q \in Queries,
        a \in AuthHeadersNoJwt \cup AuthHeadersJwt :
     \E id \in IdentitiesWith(a) :
       /\ req = [method |-> m, path |-> p, query |-> q, originalUrl |-> p \o q,
                 url |-> p \o q,
                 headers |-> [authorization |-> a, x_user_id |-> id.x_user_id,
                              x_user_email |-> id.x_user_email,
                              x_user_type |-> id.x_user_type,
                              x_user_data |-> id.x_user_data]]
       /\ inbound = req.headers
       /\ jwt \in TokensWith(m, q, a)
  /\ jwtSecret \in Secrets
  /\ res = [headersSent |-> FALSE, writes |-> <<>>]
  /\ classified = "none"
  /\ verified = FALSE
  /\ nextCalls = 0
  /\ err = NoErr
  /\ fwd = NoFwd
  /\ backend = "none"
  /\ timer = "unset"
  /\ clock = 0
  /\ down = NoDown
  /\ reqs = <<>>

\* new Date().toISOString()
Timestamp == "<iso-8601>"

\* a res.status(status).json(body) that writes the response a second time
RespondTwice(r, status, body) ==
  [headersSent |-> TRUE,
   writes |-> r.writes \o << [status |-> status, body |-> body, at |-> clock],
                             [status |-> status, body |-> body, at |-> clock] >>]

\* res.status(status).json(body): the response is written and headers are sent
Respond(r, status, body) ==
  [headersSent |-> TRUE,
   writes |-> Append(r.writes, [status |-> status, body |-> body, at |-> clock])]

---------------------------------------------------------------------------
(* gatewayAuthMiddleware, lines 41-108 *)

\* the test of line 59 negated, without the comparison with "Bearer"
HeaderFormatOkAnyScheme(parts) == Len(parts) = 2

\* the test of line 59 negated: two parts, the first the literal Bearer
HeaderFormatOk(parts) == Len(parts) = 2 /\ parts[1] = <<"Bearer">>

\* the secret test of line 70 moved before the header tests
AuthCheckSecretFirst(authHeader, secret) ==
  IF FalsyStr(secret) THEN "secret"
  ELSE IF FalsyStr(authHeader) THEN "missing"
  ELSE IF ~HeaderFormatOk(Split(authHeader, " ")) THEN "malformed"
  ELSE "verify"

\* the order of the tests of lines 50, 59 and 70: what stops the request first
AuthCheck(authHeader, secret) ==
  IF FalsyStr(authHeader) THEN "missing"
  ELSE IF ~HeaderFormatOk(Split(authHeader, " ")) THEN "malformed"
  ELSE IF FalsyStr(secret) THEN "secret"
  ELSE "verify"

\* the catch block with the test of line 94 left out
CatchMessageGeneric(name) == <<"Invalid or expired token">>

\* the catch block, lines 91-107: the message by the error's name
CatchMessage(name) ==
  IF name = "TokenExpiredError" THEN <<"Token has expired">>
  ELSE <<"Invalid or expired token">>

ErrorBody(message) ==
  [success |-> FALSE, message |-> message, timestamp |-> Timestamp]

\* line 83 without the fallback to _id
UserIdNoFallback(decoded) == Field(decoded, "id")

\* line 83: decoded.user?.id || decoded.user?._id
UserId(decoded) ==
  IF ~Falsy(Field(decoded, "id")) THEN Field(decoded, "id") ELSE Field(decoded, "_id")

\* lines 83-85: the three headers written before JSON.stringify is called
InjectFields(headers, decoded) ==
  [headers EXCEPT !.x_user_id = UserId(decoded),
                  !.x_user_email = Field(decoded, "email"),
                  !.x_user_type = Field(decoded, "userType")]

\* lines 83-86: the four identity headers from the decoded claims
Inject(headers, decoded) ==
  [headers EXCEPT !.x_user_id = UserId(decoded),
                  !.x_user_email = Field(decoded, "email"),
                  !.x_user_type = Field(decoded, "userType"),
                  !.x_user_data = JsonStringify(decoded)]

\* the outcome of lines 83-89 for a verified token: the headers written, and
\* either next() or the error that line 86 throws into the catch block
AfterVerify(headers, decoded) ==
  IF JsonStringifyThrows(decoded)
    THEN [headers |-> InjectFields(headers, decoded), next |-> FALSE,
          error |-> "RangeError"]
    ELSE [headers |-> Inject(headers, decoded), next |-> TRUE, error |-> ""]

\* the middleware ends with res.status(status).json({message, ...})
Answer(c, headers, v, status, message) ==
  [classified |-> c, headers |-> headers, verified |-> v, next |-> FALSE,
   status |-> status, message |-> message]

\* the middleware ends with next()
Continue(c, headers, v) ==
  [classified |-> c, headers |-> headers, verified |-> v, next |-> TRUE,
   status |-> 0, message |-> <<>>]

\* lines 41-108 as a function of what the middleware reads: the path, the
\* headers, JWT_SECRET, and the claims j that the string "<jwt>" decodes to
MiddlewareOutcome(path, headers, secret, j) ==
  IF isPublicRoute(path)
    THEN Continue("public", headers, FALSE)
  ELSE
    LET authHeader == headers.authorization
        check == AuthCheck(authHeader, secret)
    IN CASE check = "missing" ->
              Answer("protected", headers, FALSE, 401, <<"Authentication required">>)
         [] check = "malformed" ->
              Answer("protected", headers, FALSE, 401,
                     <<"Invalid authorization header format">>)
         [] check = "secret" ->
              Answer("protected", headers, FALSE, 500, <<"Server configuration error">>)
         [] check = "verify" ->
              LET r == JwtVerify(j, Split(authHeader, " ")[2], secret)
              IN IF r.ok
                   THEN LET a == AfterVerify(headers, r.decoded)
                        IN IF a.next
                             THEN Continue("protected", a.headers, TRUE)
                             ELSE Answer("protected", a.headers, TRUE, 401,
                                         CatchMessage(a.error))
                   ELSE Answer("protected", headers, FALSE, 401, CatchMessage(r.name))

gatewayAuthMiddleware ==
  /\ pc = "new"
  /\ LET o == MiddlewareOutcome(req.path, req.headers, jwtSecret, jwt)
     IN /\ classified' = o.classified
        /\ req' = [req EXCEPT !.headers = o.headers]
        /\ verified' = o.verified
        /\ IF o.next
             THEN /\ nextCalls' = nextCalls + 1
                  /\ pc' = "mw_next"
                  /\ UNCHANGED res
             ELSE /\ res' = Respond(res, o.status, ErrorBody(o.message))
                  /\ pc' = "mw_responded"
                  /\ UNCHANGED nextCalls
  /\ UNCHANGED <<jwt, jwtSecret, err, fwd, backend, timer, clock, inbound, down, reqs>>

---------------------------------------------------------------------------
(* extractUserFromGateway, lines 114-129 *)

\* the downstream helper, called on the request that gatewayAuthMiddleware
\* handed on: lines 117-122 when x-user-data is truthy and parses, next()
\* of line 124; a throw of JSON.parse leaves the request as it was and ends
\* in the next() of line 127
Extracted(headers, d) ==
  LET data == headers.x_user_data
      parsed == JsonParse(data)
  IN IF ~FalsyStr(data) /\ parsed.ok
       THEN [set |-> TRUE, nextCalls |-> d.nextCalls + 1,
             user |-> parsed.value,
             userId |-> headers.x_user_id,
             userEmail |-> headers.x_user_email,
             userType |-> headers.x_user_type]
       ELSE [d EXCEPT !.nextCalls = @ + 1]

extractUserFromGateway ==
  /\ pc = "mw_next"
  /\ down' = Extracted(req.headers, down)
  /\ pc' = "down_next"
  /\ UNCHANGED <<req, res, jwt, jwtSecret, classified, verified, nextCalls, err,
                 fwd, backend, timer, clock, inbound, reqs>>

---------------------------------------------------------------------------
(* The gateway application, lines 137-428 *)

\* the timeout of line 242, in milliseconds
REQUEST_TIMEOUT_MS == 30000

\* the step of the clock
TickMs == REQUEST_TIMEOUT_MS \div TicksPerDeadline

\* lines 257-261, with the defaults of the source
AUTH_SERVICE_URL == "http://localhost:3001"
IAM_SERVICE_URL == "http://localhost:3002"
INVENTORY_SERVICE_URL == "http://localhost:3003"

\* the three proxy mounts, lines 285-387: mount path, origin, name in messages
Mounts == [
  authz |-> [prefix |-> <<"/", "api", "/", "auth", "z">>, origin |-> AUTH_SERVICE_URL,
             name |-> "Auth"],
  iam   |-> [prefix |-> <<"/", "api", "/", "iam">>, origin |-> IAM_SERVICE_URL,
             name |-> "IAM"],
  inv   |-> [prefix |-> <<"/", "api", "/", "inv">>, origin |-> INVENTORY_SERVICE_URL,
             name |-> "Inventory"] ]

MountNames == {"authz", "iam", "inv"}

\* Express's match of app.use(prefix, ...): the path begins with the prefix,
\* letter case ignored, and the prefix ends at a "/" or at the end of the path
MountMatches(prefix, path) ==
  /\ Len(prefix) <= Len(path)
  /\ Lower(SubSeq(path, 1, Len(prefix))) = Lower(prefix)
  /\ (Len(path) = Len(prefix) \/ path[Len(prefix) + 1] = "/")

\* Express's match of app.get(route, ...): the whole path, letter case ignored,
\* one trailing "/" allowed, method GET or HEAD
ExactMatches(route, r) ==
  /\ r.method \in {"GET", "HEAD"}
  /\ \/ Lower(r.path) = route
     \/ Lower(r.path) = route \o <<"/">>

\* the routes of the application in the order they are registered
Stack == <<"health", "authz", "iam", "inv", "apidoc", "notfound">>

LayerMatches(layer, r) ==
  CASE layer = "health" -> ExactMatches(<<"/", "gateway", "/", "health">>, r)
    [] layer \in MountNames -> MountMatches(Mounts[layer].prefix, r.path)
    [] layer = "apidoc" -> ExactMatches(<<"/", "api">>, r)
    [] layer = "notfound" -> TRUE

\* the first registered route that matches the request
Dispatch(r) ==
  Stack[CHOOSE i \in 1..Len(Stack) :
          /\ LayerMatches(Stack[i], r)
          /\ \A j \in 1..(i - 1) : ~LayerMatches(Stack[j], r)]

\* req.url inside a mounted middleware: the matched prefix is removed, and a
\* "/" is put in front when what is left does not begin with one
MountedUrl(prefix, r) ==
  LET n == IF /\ Len(r.path) > Len(prefix) + 1
              /\ r.path[Len(prefix) + 1] = "/"
              /\ r.path[Len(prefix) + 2] = "/"
             THEN Len(prefix) + 1
           ELSE IF Len(r.path) = Len(prefix) + 1 THEN Len(prefix) + 1
           ELSE Len(prefix)
      rest == SubSeq(r.url, n + 1, Len(r.url))
  IN IF rest = <<>> \/ Head(rest) # "/" THEN <<"/">> \o rest ELSE rest

\* a resolver that substitutes the mount prefix instead of prepending it
proxyReqPathResolverSubstitute(m, url) == url

\* proxyReqPathResolver, lines 288-297, 323-332, 358-367
proxyReqPathResolver(m, url) == Mounts[m].prefix \o url

\* a handler that names the auth service whatever the mount
proxyErrorBodyAuthOnly(m, e) ==
  [status |-> "error", message |-> <<"Auth", " service unavailable">>,
   error |-> e, timestamp |-> Timestamp]

\* the body written by proxyErrorHandler, lines 308-313, 343-348, 378-383
proxyErrorBody(m, e) ==
  [status |-> "error", message |-> <<Mounts[m].name, " service unavailable">>,
   error |-> e, timestamp |-> Timestamp]

\* the errors of a backend that cannot be reached
BackendErrors == {<<"connect ECONNREFUSED">>, <<"socket hang up">>, <<"connect ETIMEDOUT">>}

\* the status codes a backend answers with
BackendStatuses == {200, 503}

\* lines 184-237: cors, json, logging, helmet, compression, the rate limiter and
\* the body parsers hand the request on
UpstreamMiddleware ==
  /\ pc = "new"
  /\ pc' = "timeout"
  /\ UNCHANGED <<req, res, jwt, jwtSecret, classified, verified, nextCalls, err,
                 fwd, backend, timer, clock, inbound, down, reqs>>

\* lines 240-254: the timer is set and the request is handed on
RequestTimeoutMiddleware ==
  /\ pc = "timeout"
  /\ timer' = "armed"
  /\ pc' = "route"
  /\ UNCHANGED <<req, res, jwt, jwtSecret, classified, verified, nextCalls, err,
                 fwd, backend, clock, inbound, down, reqs>>

\* the timer's callback without the test of line 244
RequestTimeoutUnguarded ==
  /\ timer = "armed"
  /\ clock >= REQUEST_TIMEOUT_MS
  /\ timer' = "fired"
  /\ res' = Respond(res, 408, ErrorBody(<<"Request timeout">>))
  /\ UNCHANGED <<pc, req, jwt, jwtSecret, classified, verified, nextCalls, err,
                 fwd, backend, clock, inbound, down, reqs>>

\* lines 242-251: the timer's callback
RequestTimeout ==
  /\ timer = "armed"
  /\ clock >= REQUEST_TIMEOUT_MS
  /\ timer' = "fired"
  /\ res' = IF ~res.headersSent
              THEN Respond(res, 408, ErrorBody(<<"Request timeout">>))
              ELSE res
  /\ UNCHANGED <<pc, req, jwt, jwtSecret, classified, verified, nextCalls, err,
                 fwd, backend, clock, inbound, down, reqs>>

\* time passes while a backend is awaited or the connection stays open; the
\* timer's callback runs before time passes the deadline
Tick ==
  /\ pc \in {"proxying", "done"}
  /\ clock < REQUEST_TIMEOUT_MS + MaxOver * TickMs
  /\ ~(timer = "armed" /\ clock >= REQUEST_TIMEOUT_MS)
  /\ clock' = clock + TickMs
  /\ UNCHANGED <<pc, req, res, jwt, jwtSecret, classified, verified, nextCalls,
                 err, fwd, backend, timer, inbound, down, reqs>>

\* lines 271-282: the handler reads KYC_SERVICE_URL, which nothing defines, so
\* it throws a ReferenceError that Express hands to the error handler
HealthHandler ==
  /\ pc = "route"
  /\ Dispatch(req) = "health"
  /\ err' = [message |-> <<"KYC_SERVICE_URL is not defined">>, status |-> 0]
  /\ pc' = "error"
  /\ UNCHANGED <<req, res, jwt, jwtSecret, classified, verified, nextCalls,
                 fwd, backend, timer, clock, inbound, down, reqs>>

\* lines 419-428: the global error handler (status 0 stands for no err.status)
GlobalErrorHandler ==
  /\ pc = "error"
  /\ res' = IF ~res.headersSent
              THEN Respond(res, IF err.status # 0 THEN err.status ELSE 500,
                           [status |-> "error",
                            message |-> IF err.message # <<>> THEN err.message
                                        ELSE <<"Internal Server Error">>,
                            timestamp |-> Timestamp])
              ELSE res
  /\ pc' = "done"
  /\ UNCHANGED <<req, jwt, jwtSecret, classified, verified, nextCalls, err,
                 fwd, backend, timer, clock, inbound, down, reqs>>

\* lines 285-387: the proxy mounted at m sends the request to its origin, with
\* the path of proxyReqPathResolver and the headers of the request
Proxy(m) ==
  /\ pc = "route"
  /\ Dispatch(req) = m
  /\ LET url == MountedUrl(Mounts[m].prefix, req)
     IN /\ req' = [req EXCEPT !.url = url]
        /\ fwd' = [to |-> m, origin |-> Mounts[m].origin,
                   path |-> proxyReqPathResolver(m, url),
                   method |-> req.method, headers |-> req.headers]
  /\ backend' \in {"up", "unreachable"}
  /\ pc' = "proxying"
  /\ UNCHANGED <<res, jwt, jwtSecret, classified, verified, nextCalls, err,
                 timer, clock, inbound, down, reqs>>

\* lines 298-304: the backend answered; its status and body are relayed
\* unless a response was already sent
ProxyResponse ==
  /\ pc = "proxying"
  /\ backend = "up"
  /\ \E s \in BackendStatuses :
       res' = IF ~res.headersSent
                THEN Respond(res, s, [proxied |-> TRUE, from |-> fwd.to])
                ELSE res
  /\ pc' = "done"
  /\ UNCHANGED <<req, jwt, jwtSecret, classified, verified, nextCalls, err,
                 fwd, backend, timer, clock, inbound, down, reqs>>

\* lines 305-315, 340-350, 375-385: proxyErrorHandler
ProxyError ==
  /\ pc = "proxying"
  /\ backend = "unreachable"
  /\ \E e \in BackendErrors :
       res' = IF ~res.headersSent
                THEN Respond(res, 500, proxyErrorBody(fwd.to, e))
                ELSE res
  /\ pc' = "done"
  /\ UNCHANGED <<req, jwt, jwtSecret, classified, verified, nextCalls, err,
                 fwd, backend, timer, clock, inbound, down, reqs>>

\* lines 390-404: the API documentation
ApiDoc ==
  /\ pc = "route"
  /\ Dispatch(req) = "apidoc"
  /\ res' = Respond(res, 200,
                    [success |-> TRUE, message |-> <<"ics API Gateway">>,
                     endpoints |-> [authz |-> <<"/", "api", "/", "auth", "z", "/", "*">>,
                                    iam |-> <<"/", "api", "/", "iam", "/", "*">>,
                                    inventory |-> <<"/", "api", "/", "inv", "entory", "/", "*">>],
                     timestamp |-> Timestamp])
  /\ pc' = "done"
  /\ UNCHANGED <<req, jwt, jwtSecret, classified, verified, nextCalls, err,
                 fwd, backend, timer, clock, inbound, down, reqs>>

\* the 404 handler naming req.path, which has no query string
NotFoundNamesPath ==
  /\ pc = "route"
  /\ Dispatch(req) = "notfound"
  /\ res' = Respond(res, 404,
                    ErrorBody(<<"Route ">> \o req.path \o <<" not found">>))
  /\ pc' = "done"
  /\ UNCHANGED <<req, jwt, jwtSecret, classified, verified, nextCalls, err,
                 fwd, backend, timer, clock, inbound, down, reqs>>

\* lines 410-416: the 404 handler
NotFound ==
  /\ pc = "route"
  /\ Dispatch(req) = "notfound"
  /\ res' = Respond(res, 404,
                    ErrorBody(<<"Route ">> \o req.originalUrl \o <<" not found">>))
  /\ pc' = "done"
  /\ UNCHANGED <<req, jwt, jwtSecret, classified, verified, nextCalls, err,
                 fwd, backend, timer, clock, inbound, down, reqs>>

Next ==
  \/ gatewayAuthMiddleware
  \/ extractUserFromGateway
  \/ UpstreamMiddleware
  \/ RequestTimeoutMiddleware
  \/ RequestTimeout
  \/ Tick
  \/ HealthHandler
  \/ GlobalErrorHandler
  \/ \E m \in MountNames : Proxy(m)
  \/ ProxyResponse
  \/ ProxyError
  \/ ApiDoc
  \/ NotFound

Spec == Init /\ [][Next]_vars

---------------------------------------------------------------------------
(* Several requests at a time: each handler runs to its end before the event
   loop starts another, and the handlers of different requests interleave *)

\* the users of the tokens in flight
ConcUsers == {
  [id |-> "u1", email |-> "a@b.com", userType |-> "buyer"],
  [id |-> "u2", email |-> "c@d.com", userType |-> "seller"],
  [id |-> "u3", email |-> "e@f.com", userType |-> "buyer"],
  [_id |-> "m4", email |-> "g@h.com", userType |-> "seller"] }

\* protected paths
ConcPaths == {<<"/", "orders">>, <<"/", "API", "/", "auth", "z">>}

\* a request as it arrives, with a valid token of its own
ConcRequests ==
  {[pc |-> "new", path |-> p,
    headers |-> [authorization |-> <<"Bearer", " ", "<jwt>">>,
                 x_user_id |-> id.x_user_id, x_user_email |-> id.x_user_email,
                 x_user_type |-> id.x_user_type, x_user_data |-> id.x_user_data],
    inbound |-> id,
    jwt |-> [key |-> "s1", time |-> "valid", hasUser |-> TRUE, user |-> u],
    nextCalls |-> 0, writes |-> <<>>, down |-> NoDown]
   : p \in ConcPaths, id \in {NoIdentity, ForgedIdentity}, u \in ConcUsers}

\* the single request of Spec is not followed here
ConcIdle ==
  /\ pc = "idle"
  /\ req = [method |-> "GET", path |-> <<"/">>, query |-> <<>>,
            originalUrl |-> <<"/">>, url |-> <<"/">>,
            headers |-> [authorization |-> UndefinedStr, x_user_id |-> UNDEF,
                         x_user_email |-> UNDEF, x_user_type |-> UNDEF,
                         x_user_data |-> UndefinedStr]]
  /\ inbound = req.headers
  /\ jwt = DefaultJwt
  /\ res = [headersSent |-> FALSE, writes |-> <<>>]
  /\ classified = "none"
  /\ verified = FALSE
  /\ nextCalls = 0
  /\ err = NoErr
  /\ fwd = NoFwd
  /\ backend = "none"
  /\ timer = "unset"
  /\ clock = 0
  /\ down = NoDown

ConcInit ==
  /\ ConcIdle
  /\ jwtSecret = <<"s1">>
  /\ reqs \in {r \in [1..NumReqs -> ConcRequests] :
                 \A i, j \in 1..NumReqs : i # j => r[i].jwt # r[j].jwt}

\* a jwt.verify that hands every request the claims of the first request's token
TokenClaimsOfFirst(rs, i) == rs[1].jwt

\* line 80: the claims that the token of request i decodes to
TokenClaims(rs, i) == rs[i].jwt

\* gatewayAuthMiddleware called for request i
ConcMiddleware(i) ==
  /\ reqs[i].pc = "new"
  /\ LET o == MiddlewareOutcome(reqs[i].path, reqs[i].headers, jwtSecret,
                                TokenClaims(reqs, i))
     IN reqs' = [reqs EXCEPT
                   ![i].headers = o.headers,
                   ![i].pc = IF o.next THEN "mw_next" ELSE "mw_responded",
                   ![i].nextCalls = IF o.next THEN @ + 1 ELSE @,
                   ![i].writes = IF o.next THEN @
                                 ELSE Append(@, [status |-> o.status,
                                                 body |-> ErrorBody(o.message)])]
  /\ UNCHANGED <<pc, req, res, jwt, jwtSecret, classified, verified, nextCalls, err,
                 fwd, backend, timer, clock, inbound, down>>

\* extractUserFromGateway called for request i, downstream
ConcExtract(i) ==
  /\ reqs[i].pc = "mw_next"
  /\ reqs' = [reqs EXCEPT ![i].down = Extracted(reqs[i].headers, @),
                          ![i].pc = "down_next"]
  /\ UNCHANGED <<pc, req, res, jwt, jwtSecret, classified, verified, nextCalls, err,
                 fwd, backend, timer, clock, inbound, down>>

ConcNext ==
  \E i \in 1..NumReqs :
    \/ ConcMiddleware(i)
    \/ ConcExtract(i)

SpecConc == ConcInit /\ [][ConcNext]_vars

---------------------------------------------------------------------------
(* Properties *)

\* the request has reached a route of the gateway application: a proxy, the
\* health or documentation handler, or the 404 handler
HandlerReached == pc \in {"proxying", "error", "done"}

\* the request was sent to a backend
Forwarded == fwd # NoFwd

\* the only response written so far
OnlyResponse == res.writes[1]

\* C1: in the gateway's app.use chain, a request whose path is not public
\* reaches a proxy or another route handler only after its token was verified.
C1_VerifiedBeforeHandler ==
  (HandlerReached /\ ~isPublicRoute(req.path)) => verified

\* C2: a forwarded request carries identity headers only as the gateway set
\* them from a verified token; without verification it carries none of the
\* caller's x-user-id, x-user-email, x-user-type, x-user-data.
C2_NoCallerIdentityForwarded ==
  Forwarded =>
    IF verified
      THEN IdentityOf(fwd.headers) = IdentityOf(Inject(fwd.headers, jwt))
      ELSE IdentityOf(fwd.headers) = NoIdentity

\* C3: a request without Authorization header to a protected path ends in the
\* pipeline with 401 "Authentication required" and is not forwarded.
C3_MissingHeader401 ==
  (/\ HandlerReached
   /\ ~isPublicRoute(req.path)
   /\ inbound.authorization = UndefinedStr)
  => /\ ~Forwarded
     /\ res.writes # <<>>
     /\ OnlyResponse.status = 401
     /\ OnlyResponse.body.message = <<"Authentication required">>

---------------------------------------------------------------------------
(* Properties of gatewayAuthMiddleware *)

\* gatewayAuthMiddleware has returned
MiddlewareDone == pc \in {"mw_next", "mw_responded"}

\* it took the branch of a protected path and has returned
ProtectedDone == MiddlewareDone /\ classified = "protected"

\* a header of two space-separated parts, the first the literal Bearer:
\* "Bearer", one space, and a second part (possibly empty) without space
WellFormedBearer(h) ==
  /\ Len(h) >= 2
  /\ h[1] = "Bearer"
  /\ h[2] = " "
  /\ \A i \in 3..Len(h) : h[i] # " "

\* the middleware answered with this status and message, and did nothing else
AnsweredOnly(status, message) ==
  /\ pc = "mw_responded"
  /\ Len(res.writes) = 1
  /\ OnlyResponse.status = status
  /\ OnlyResponse.body.message = message
  /\ nextCalls = 0
  /\ ~Forwarded

\* the middleware left the identity headers as the caller sent them
IdentityUntouched == IdentityOf(req.headers) = IdentityOf(inbound)

\* C4 as stated: on a protected path, a header that is present but is not
\* "Bearer <token>" yields 401 "Invalid authorization header format" and no
\* identity header is set.
C4_MalformedHeader401 ==
  (/\ ProtectedDone
   /\ inbound.authorization # UndefinedStr
   /\ ~WellFormedBearer(inbound.authorization))
  => /\ AnsweredOnly(401, <<"Invalid authorization header format">>)
     /\ IdentityUntouched

\* C4 amended: the same for a header that is present and not empty; a header
\* with the empty string as value is answered like a missing one, with 401
\* "Authentication required".
C4_NonEmptyMalformedHeader401 ==
  /\ (/\ ProtectedDone
      /\ ~FalsyStr(inbound.authorization)
      /\ ~WellFormedBearer(inbound.authorization))
     => /\ AnsweredOnly(401, <<"Invalid authorization header format">>)
        /\ IdentityUntouched
  /\ (ProtectedDone /\ inbound.authorization = <<>>)
     => /\ AnsweredOnly(401, <<"Authentication required">>)
        /\ IdentityUntouched

C4_Witness ==
  /\ ProtectedDone
  /\ inbound.authorization = <<"Basic", " ", "xyz">>
  /\ inbound.x_user_id = "admin"
  /\ OnlyResponse.status = 401

\* C5: the checks run in the order missing header, malformed header, secret,
\* token: with the secret unset or empty, a well-formed header yields 500
\* "Server configuration error" and a missing or malformed one its 401.
C5_CheckOrder ==
  (ProtectedDone /\ FalsyStr(jwtSecret)) =>
    IF WellFormedBearer(inbound.authorization)
      THEN AnsweredOnly(500, <<"Server configuration error">>)
    ELSE IF FalsyStr(inbound.authorization)
      THEN AnsweredOnly(401, <<"Authentication required">>)
    ELSE AnsweredOnly(401, <<"Invalid authorization header format">>)

C5_Witness ==
  /\ ProtectedDone
  /\ jwtSecret = UndefinedStr
  /\ inbound.authorization = <<"Bearer", " ", "<jwt>">>
  /\ OnlyResponse.status = 500

\* the token of the header is a token signed with the gateway's secret
SignedWithSecret ==
  /\ inbound.authorization = <<"Bearer", " ", "<jwt>">>
  /\ <<jwt.key>> = jwtSecret

\* C6: with a well-formed Bearer header and a configured secret, an expired
\* token yields 401 "Token has expired", any other failing token 401 with the
\* invalid-token message; next is not called and no identity header is set.
C6_VerificationFailure ==
  (/\ ProtectedDone
   /\ WellFormedBearer(inbound.authorization)
   /\ ~FalsyStr(jwtSecret)
   /\ ~(SignedWithSecret /\ jwt.time = "valid"))
  => /\ IF SignedWithSecret /\ jwt.time = "expired"
          THEN AnsweredOnly(401, <<"Token has expired">>)
          ELSE AnsweredOnly(401, <<"Invalid or expired token">>)
     /\ IdentityUntouched
     /\ ~verified

C6_Witness ==
  /\ ProtectedDone
  /\ SignedWithSecret
  /\ jwt.time = "expired"
  /\ inbound.x_user_id = "admin"
  /\ OnlyResponse.body.message = <<"Token has expired">>

\* the request carried a valid token signed with the gateway's secret
ValidToken ==
  /\ SignedWithSecret
  /\ jwt.time = "valid"

\* the middleware handed the request on exactly once, without a response
ContinuedOnce ==
  /\ pc = "mw_next"
  /\ nextCalls = 1
  /\ res.writes = <<>>
  /\ ~res.headersSent

\* the value of a claim of the token's user, undefined when it is absent
Claim(f) == IF jwt.hasUser /\ f \in DOMAIN jwt.user THEN jwt.user[f] ELSE UNDEF

\* C7 as stated: a valid token whose user claim has an id continues to
\* routing once, and x-user-id, x-user-email, x-user-type equal the user's
\* id, email and userType; a missing email or userType is no failure.
C7_IdentityPropagated ==
  (ProtectedDone /\ ValidToken /\ jwt.hasUser /\ "id" \in DOMAIN jwt.user)
  => /\ ContinuedOnce
     /\ req.headers.x_user_id = jwt.user.id
     /\ req.headers.x_user_email = Claim("email")
     /\ req.headers.x_user_type = Claim("userType")

\* C7 amended: x-user-id equals the user's id when that id is not empty; an
\* empty or absent id is replaced by the user's _id (undefined without one).
\* The request continues to routing once, except that a user which cannot be
\* serialized for x-user-data is answered 401 after the three fields are set.
C7_IdentityPropagatedNonEmptyId ==
  (ProtectedDone /\ ValidToken)
  => /\ verified
     /\ IF JsonStringifyThrows(jwt)
          THEN AnsweredOnly(401, <<"Invalid or expired token">>)
          ELSE ContinuedOnce
     /\ req.headers.x_user_id =
          (IF Claim("id") \notin {UNDEF, ""} THEN Claim("id") ELSE Claim("_id"))
     /\ req.headers.x_user_email = Claim("email")
     /\ req.headers.x_user_type = Claim("userType")

C7_Witness ==
  /\ ProtectedDone
  /\ ValidToken
  /\ jwt.user = U1
  /\ req.headers.x_user_id = "u1"
  /\ req.headers.x_user_email = "a@b.com"
  /\ req.headers.x_user_type = "buyer"
  /\ inbound.x_user_id = "admin"

---------------------------------------------------------------------------
(* Properties of the route classifier *)

\* e is a prefix of p (or equal to it), position by position
IsPrefixOf(e, p) ==
  /\ Len(e) <= Len(p)
  /\ \A i \in 1..Len(e) : p[i] = e[i]

\* the base of a wildcard entry ("/x/*" has base "/x"), the entry otherwise
EntryBase(e) ==
  IF Len(e) >= 2 /\ e[Len(e) - 1] = "/" /\ e[Len(e)] = "*"
    THEN SubSeq(e, 1, Len(e) - 2)
    ELSE e

\* some entry of the public route set is a prefix of p
HasPublicPrefix(p) ==
  \E i \in 1..Len(PUBLIC_ROUTES) : IsPrefixOf(EntryBase(PUBLIC_ROUTES[i]), p)

Reverse(q) == [i \in 1..Len(q) |-> q[Len(q) + 1 - i]]

\* C8: isPublicRoute(p) is true exactly for the paths that equal an entry of
\* PUBLIC_ROUTES or have one as a prefix, an unmatched path is protected, and
\* the order of the entries does not matter.
C8_PublicIffPrefix ==
  classified # "none" =>
    /\ (classified = "public") <=> HasPublicPrefix(req.path)
    /\ (classified = "protected") <=> ~HasPublicPrefix(req.path)
    /\ SomeRoute(Reverse(PUBLIC_ROUTES), req.path) <=> (classified = "public")

C8_Witness ==
  /\ classified = "public"
  /\ req.path = <<"/", "health", "z", "/", "login">>
  /\ req.path \notin {PUBLIC_ROUTES[i] : i \in 1..Len(PUBLIC_ROUTES)}

---------------------------------------------------------------------------
(* Properties of the proxies *)

\* the origin each mount path is bound to, lines 286-287, 321-322, 356-357
OriginOf(m) ==
  CASE m = "authz" -> "http://localhost:3001"
    [] m = "iam" -> "http://localhost:3002"
    [] m = "inv" -> "http://localhost:3003"

\* the mount path as the source writes it
MountPath(m) ==
  CASE m = "authz" -> <<"/", "api", "/", "auth", "z">>
    [] m = "iam" -> <<"/", "api", "/", "iam">>
    [] m = "inv" -> <<"/", "api", "/", "inv">>

\* what follows the mount path in the request's path
SubPathAt(m) == SubSeq(req.path, Len(MountPath(m)) + 1, Len(req.path))

BackendName(m) ==
  CASE m = "authz" -> "Auth"
    [] m = "iam" -> "IAM"
    [] m = "inv" -> "Inventory"

\* w is the 'service unavailable' response of backend m
IsUnavailable(w, m) ==
  /\ w.status = 500
  /\ "error" \in DOMAIN w.body
  /\ w.body.message = <<BackendName(m), " service unavailable">>
  /\ w.body.error \in BackendErrors

\* w is the 'request timeout' response
IsTimeout(w) ==
  /\ w.status = 408
  /\ w.body.message = <<"Request timeout">>

\* C10 as stated: with the backend unreachable the caller's response is the
\* 'service unavailable' response that names the backend and carries the
\* error's message, it is the only one, and it comes by the deadline.
C10_UnavailableResponse ==
  (Forwarded /\ backend = "unreachable") =>
    /\ Len(res.writes) <= 1
    /\ res.headersSent => IsUnavailable(OnlyResponse, fwd.to)
    /\ pc = "done" => res.headersSent
    /\ clock > REQUEST_TIMEOUT_MS => res.headersSent

\* C10 amended: the only response is the 'service unavailable' response when
\* the backend's error is reported before the deadline passes, and the 408
\* 'Request timeout' response written at the deadline otherwise.
C10_UnavailableOrTimeout ==
  (Forwarded /\ backend = "unreachable") =>
    /\ Len(res.writes) <= 1
    /\ res.headersSent =>
         \/ /\ IsUnavailable(OnlyResponse, fwd.to)
            /\ OnlyResponse.at <= REQUEST_TIMEOUT_MS
         \/ /\ IsTimeout(OnlyResponse)
            /\ OnlyResponse.at = REQUEST_TIMEOUT_MS
            /\ timer = "fired"
    /\ pc = "done" => Len(res.writes) = 1
    /\ (pc = "done" /\ timer # "fired") => IsUnavailable(OnlyResponse, fwd.to)
    /\ clock > REQUEST_TIMEOUT_MS => res.headersSent

C10_Witness ==
  /\ Forwarded
  /\ fwd.to = "iam"
  /\ backend = "unreachable"
  /\ pc = "done"
  /\ IsUnavailable(OnlyResponse, "iam")
  /\ OnlyResponse.body.error = <<"connect ECONNREFUSED">>
  /\ clock > REQUEST_TIMEOUT_MS

---------------------------------------------------------------------------
(* Properties of the responses of the gateway application *)

\* C11: whatever the order of the deadline's expiry and the backend's answer
\* or error, a forwarded request gets at most one response: the 408 is
\* written only when nothing was sent, and what arrives after it writes
\* nothing.
C11_AtMostOneResponse ==
  Forwarded =>
    /\ Len(res.writes) <= 1
    /\ res.headersSent <=> (Len(res.writes) = 1)
    /\ \A i \in 1..Len(res.writes) :
         IsTimeout(res.writes[i]) =>
           /\ i = 1
           /\ timer = "fired"
           /\ res.writes[i].at = REQUEST_TIMEOUT_MS
    /\ (pc = "done" /\ timer = "fired") => Len(res.writes) = 1

\* the backend's answer or error arrived after the 408 was sent
C11_Witness ==
  /\ Forwarded
  /\ backend = "up"
  /\ pc = "done"
  /\ timer = "fired"
  /\ Len(res.writes) = 1
  /\ IsTimeout(OnlyResponse)

\* the path lies under mount m as Express matches it: the mount path, then
\* the end of the path or a "/"
UnderMount(m) ==
  /\ IsPrefixOf(MountPath(m), Lower(req.path))
  /\ (SubPathAt(m) = <<>> \/ Head(SubPathAt(m)) = "/")

\* the path is that of the health endpoint or of the API documentation
LocalEndpoint ==
  Lower(req.path) \in {<<"/", "gateway", "/", "health">>, <<"/", "api">>}

\* C12: a request whose path matches no proxy mount and no endpoint of the
\* gateway ends with exactly one 404 response, success false, its message
\* naming the requested URL, and is never forwarded.
C12_NotFound ==
  (/\ HandlerReached
   /\ \A m \in MountNames : ~UnderMount(m)
   /\ ~LocalEndpoint)
  => /\ pc = "done"
     /\ ~Forwarded
     /\ Len(res.writes) = 1
     /\ OnlyResponse.status = 404
     /\ OnlyResponse.body.success = FALSE
     /\ OnlyResponse.body.message = <<"Route ">> \o req.path \o req.query \o <<" not found">>

C12_Witness ==
  /\ pc = "done"
  /\ req.path = <<"/", "orders", "/", "login">>
  /\ req.query = <<"?", "q=1">>
  /\ timer = "fired"
  /\ OnlyResponse.status = 404

\* C13: GET /gateway/health is answered 200 with a body that lists the
\* backend origins.
C13_HealthAlways200 ==
  (/\ pc = "done"
   /\ req.method = "GET"
   /\ req.path = <<"/", "gateway", "/", "health">>)
  => /\ Len(res.writes) = 1
     /\ OnlyResponse.status = 200
     /\ "services" \in DOMAIN OnlyResponse.body

\* w is an error response the gateway made itself
GatewayError(w) == w.status >= 400 /\ "proxied" \notin DOMAIN w.body

\* C14: every error response the gateway makes itself carries success
\* (false), message and timestamp.
C14_ErrorShape ==
  \A i \in 1..Len(res.writes) :
    GatewayError(res.writes[i]) =>
      /\ {"success", "message", "timestamp"} \subseteq DOMAIN res.writes[i].body
      /\ res.writes[i].body.success = FALSE

\* C15: a request under /api/inventory/ is forwarded to the inventory
\* service.
C15_InventoryForwarded ==
  (/\ pc = "done"
   /\ IsPrefixOf(<<"/", "api", "/", "inv", "entory", "/">>, req.path))
  => /\ Forwarded
     /\ fwd.origin = "http://localhost:3003"

---------------------------------------------------------------------------
(* Further properties of gatewayAuthMiddleware *)

\* C17: when the token is verified but the serialized copy of its user cannot
\* be produced, the request goes on to routing with x-user-id, x-user-email
\* and x-user-type set and only x-user-data left out; it gets no error
\* response.
C17_SerializationFailureProceeds ==
  (ProtectedDone /\ ValidToken /\ JsonStringifyThrows(jwt))
  => /\ ContinuedOnce
     /\ req.headers.x_user_id = "u1"
     /\ req.headers.x_user_email = "a@b.com"
     /\ req.headers.x_user_type = "buyer"

\* the middleware ended by sending one response and did not call next
EndedByResponse ==
  /\ pc = "mw_responded"
  /\ Len(res.writes) = 1
  /\ res.headersSent
  /\ OnlyResponse.status \in {401, 500}
  /\ nextCalls = 0

\* the middleware ended by calling next once and sent nothing
EndedByNext ==
  /\ pc = "mw_next"
  /\ nextCalls = 1
  /\ res.writes = <<>>
  /\ ~res.headersSent

\* C18: for every path, header, secret and verification outcome, one call of
\* gatewayAuthMiddleware ends either with exactly one response whose status
\* is 401 or 500, or with exactly one call of next, never both and never
\* neither; no error leaves the middleware.
C18_OneOutcome ==
  MiddlewareDone
  => /\ EndedByResponse \/ EndedByNext
     /\ ~(EndedByResponse /\ EndedByNext)
     /\ err = NoErr

\* both outcomes occur: this one is the 401 after a token failed verification
C18_Witness ==
  /\ EndedByResponse
  /\ classified = "protected"
  /\ req.headers.authorization = <<"Bearer", " ", "<jwt>">>
  /\ jwt.time = "expired"
  /\ OnlyResponse.status = 401

---------------------------------------------------------------------------
(* The classifier on the paths of the proxy mounts *)

\* the path begins with a mount prefix, in the letter case of lines 285-387
BeginsWithMountPrefix == \E m \in MountNames : IsPrefixOf(MountPath(m), req.path)

\* neither the middleware nor a route handler verified a token or wrote an
\* identity header
NothingVerifiedOrInjected ==
  /\ ~verified
  /\ IdentityUntouched
  /\ Forwarded => IdentityOf(fwd.headers) = IdentityOf(inbound)

\* called on a path under a mount prefix, the middleware takes the branch of
\* line 44: next once, nothing verified, nothing injected
MountPathsSkipAuthentication ==
  (MiddlewareDone /\ BeginsWithMountPrefix)
  => /\ classified = "public"
     /\ EndedByNext
     /\ NothingVerifiedOrInjected

\* C19 as stated: every path beginning with /api/authz, /api/iam or /api/inv
\* is public because of the entry /api, so every request that can be forwarded
\* to a backend is one for which the classifier skips authentication, and
\* nothing is verified or injected.
C19_ForwardedIsPublic ==
  /\ BeginsWithMountPrefix => isPublicRoute(req.path)
  /\ MountPathsSkipAuthentication
  /\ Forwarded => (isPublicRoute(req.path) /\ NothingVerifiedOrInjected)

\* C19 amended: the same for the paths that begin with a mount prefix in the
\* letter case written; a forwarded request whose path differs from the
\* prefix in letter case only (/API/authz/...) is not public for the
\* classifier, although nothing is verified or injected on its way either.
C19_ForwardedIsPublicInWrittenCase ==
  /\ BeginsWithMountPrefix => isPublicRoute(req.path)
  /\ MountPathsSkipAuthentication
  /\ Forwarded =>
       /\ \E m \in MountNames : IsPrefixOf(MountPath(m), Lower(req.path))
       /\ isPublicRoute(req.path) <=> IsPrefixOf(<<"/", "api">>, req.path)
       /\ NothingVerifiedOrInjected

\* a forwarded /API/authz/... request, which the classifier calls protected
C19_Witness ==
  /\ Forwarded
  /\ fwd.to = "authz"
  /\ IsPrefixOf(<<"/", "API", "/", "auth", "z">>, req.path)
  /\ ~isPublicRoute(req.path)
  /\ inbound.x_user_id = "admin"
  /\ fwd.headers.x_user_id = "admin"

---------------------------------------------------------------------------
(* Round trip between gatewayAuthMiddleware and extractUserFromGateway *)

\* extractUserFromGateway has returned
ExtractDone == pc = "down_next"

\* C20: applied to the headers that gatewayAuthMiddleware injected for a user
\* claim, extractUserFromGateway sets req.user to that user claim and
\* req.userId, req.userEmail, req.userType to the injected header values;
\* when x-user-data is absent or cannot be parsed it sets none of the four;
\* it always calls next exactly once and sends no response.
C20_RoundTrip ==
  ExtractDone
  => /\ (verified /\ jwt.hasUser)
          => /\ down.set
             /\ down.user = jwt.user
             /\ down.userId = req.headers.x_user_id
             /\ down.userEmail = req.headers.x_user_email
             /\ down.userType = req.headers.x_user_type
             /\ IdentityOf(req.headers) = IdentityOf(Inject(inbound, jwt))
     /\ (req.headers.x_user_data \in {UndefinedStr, <<>>, <<"{", "id">>})
          => down = [set |-> FALSE, nextCalls |-> 1]
     /\ down.nextCalls = 1
     /\ nextCalls = 1
     /\ res.writes = <<>>
     /\ ~res.headersSent

\* the round trip of a user with two claims, over a forged inbound identity
C20_Witness ==
  /\ ExtractDone
  /\ verified
  /\ jwt.user = [_id |-> "m1", email |-> "a@b.com"]
  /\ inbound.x_user_data = <<"{", "id", ":", "admin", ",", "}">>
  /\ down.set
  /\ down.user = [_id |-> "m1", email |-> "a@b.com"]
  /\ down.userId = "m1"

\* x-user-data that is not JSON: nothing is set and next is called once
C20_WitnessUnparseable ==
  /\ ExtractDone
  /\ req.headers.x_user_data = <<"{", "id">>
  /\ ~down.set
  /\ down.nextCalls = 1

---------------------------------------------------------------------------
(* Requests handled at a time *)

\* the identity headers that the token of request i gives
OwnIdentity(i) == IdentityOf(Inject(reqs[i].headers, reqs[i].jwt))

\* C16: of several requests with distinct valid tokens, handled in any
\* interleaving of their steps, each carries on exactly the identity fields of
\* its own token, never those of another request; the handlers write nothing
\* that requests share, so a request not yet handled is as it arrived and the
\* secret stays as configured.
C16_NoCrossRequestIdentity ==
  /\ jwtSecret = <<"s1">> \/ reqs = <<>>
  /\ \A i \in DOMAIN reqs :
       /\ reqs[i].pc = "new" =>
            IdentityOf(reqs[i].headers) = reqs[i].inbound
       /\ reqs[i].pc # "new" =>
            /\ reqs[i].pc \in {"mw_next", "down_next"}
            /\ reqs[i].nextCalls = 1
            /\ reqs[i].writes = <<>>
            /\ IdentityOf(reqs[i].headers) = OwnIdentity(i)
            /\ \A j \in DOMAIN reqs \ {i} :
                 /\ reqs[i].headers.x_user_id # OwnIdentity(j).x_user_id
                 /\ reqs[i].headers.x_user_email # OwnIdentity(j).x_user_email
                 /\ reqs[i].headers.x_user_data # OwnIdentity(j).x_user_data
       /\ reqs[i].pc = "down_next" =>
            /\ reqs[i].down.set
            /\ reqs[i].down.user = reqs[i].jwt.user
            /\ reqs[i].down.userId = OwnIdentity(i).x_user_id

\* two requests handled, the second one's middleware before the first one's
C16_Witness ==
  /\ reqs # <<>>
  /\ reqs[1].pc = "mw_next"
  /\ reqs[2].pc = "down_next"
  /\ reqs[1].jwt.user.email = "a@b.com"
  /\ reqs[2].jwt.user.email = "g@h.com"
  /\ reqs[1].headers.x_user_id = "u1"
  /\ reqs[2].headers.x_user_id = "m4"
  /\ reqs[2].down.userId = "m4"
  /\ reqs[1].inbound = ForgedIdentity

====
